---- MODULE Spec2Model ----
(***************************************************************************)
(* Managed (opaque, per-declaring-type) memory for objects:                *)
(* Objects/layoutobject.c.                                                 *)
(*                                                                         *)
(* A type is a number 1..ntypes, in order of definition.  Defining a type  *)
(* calls _PyLayout_Create(type, bases, size) once and stores the result in *)
(* the type's tp_cache slot (Py_LAYOUT).  Lookups (PyObject_GetTypeData)   *)
(* are pure reads and are operators of the model.                          *)
(*                                                                         *)
(* A dict is a sequence of [key, value] in insertion order, which is the   *)
(* order PyDict_Next walks it.  A layout is a record of the fields of      *)
(* struct _layout; its entry table is a function on 0..ob_size-1.  A store *)
(* past the end of an entry table is kept in the variable oob.             *)
(***************************************************************************)
EXTENDS Integers, Sequences, FiniteSets, TLC

\* ---------------------------------------------------------------- bounds
\* Number of types defined in one run.
MaxTypes == 3

\* ------------------------------------------------------ program constants
\* for (int shift = 0; shift<16; ++shift)
NSHIFT == 16
\* sizeof(void*)
SIZEOF_VOID_P == 8
\* a NULL pointer / the NULL type identity of an empty slot
NULL == 0
\* a NULL PyLayout*: what tp_cache holds for a type that has no layout
NoLayout == [ly_cast |-> "NULL"]

\* ----------------------------------------------------------------- inputs
\* The type declarations tried: the extension size a type requests (size must
\* be aligned) and its feature flags that reserve space in front of the object.
TypeDecls ==
    {[size |-> 0, flags |-> {}],
     [size |-> 8, flags |-> {}],
     [size |-> 16, flags |-> {"HAVE_GC", "MANAGED_DICT"}]}
\* Values rand() returns.  0 and 4 share a home slot in a 2-slot table at
\* shift 0 and at shift 1 and part at shift 2; 0 and 1 part at shift 0.
Ids == {0, 1, 4}
\* Addresses of objects.
Addrs == {4096}

VARIABLES
    ntypes,     \* number of types defined so far
    tp_bases,   \* tp_bases[t]: the tuple of direct bases of type t
    tp_flags,   \* tp_flags[t]: the feature flags of type t
    tp_cache,   \* tp_cache[t]: the layout of type t, or NoLayout
    oob,        \* stores made past the end of an entry table
    pc,         \* "idle", or "probe": a call is inside a probe loop
    frame       \* the locals of the call that is inside a probe loop

vars == <<ntypes, tp_bases, tp_flags, tp_cache, oob, pc, frame>>

Defined == 1..ntypes

\* Py_LAYOUT(type)
Py_LAYOUT(type) == tp_cache[type]

\* id >> shift on uint32_t
Shr(id, shift) == id \div (2 ^ shift)

\* PyDict_SetItem: replace the value of a present key, else insert at the end
PyDict_SetItem(dict, k, v) ==
    IF \E i \in 1..Len(dict) : dict[i].key = k
    THEN [i \in 1..Len(dict) |->
            IF dict[i].key = k THEN [key |-> k, value |-> v] ELSE dict[i]]
    ELSE Append(dict, [key |-> k, value |-> v])

\* ------------------------------------------------------------ lookups

\* _layout_cast_ordered, as far as the slot it answers from: the index of the
\* slot, or -1 for "return NULL"
layout_cast_ordered_slot(layout, type) ==
    LET nentries == layout.ob_size
        requested == Py_LAYOUT(type).ly_order
    IN IF requested >= nentries \/ layout.entries[requested].le_type # type
       THEN -1
       ELSE requested

\* _layout_cast_ordered: &bytes[entries[requested].le_offset], or NULL
layout_cast_ordered(layout, obj, type) ==
    LET slot == layout_cast_ordered_slot(layout, type)
    IN IF slot = -1 THEN NULL ELSE obj + layout.entries[slot].le_offset

\* A lookup loop that takes any occupied slot for a match.
RECURSIVE cast_hash_loop_occupied(_, _, _, _)
cast_hash_loop_occupied(layout, type, requested, i) ==
    IF ~(i < layout.ly_search) THEN -1
    ELSE IF layout.entries[requested].le_type # NULL THEN requested
    ELSE cast_hash_loop_occupied(layout, type,
                        IF requested + 1 = layout.ob_size THEN 0 ELSE requested + 1,
                        i + 1)

\* the for loop of _layout_cast_hash: i counts the probes made so far
RECURSIVE cast_hash_loop(_, _, _, _)
cast_hash_loop(layout, type, requested, i) ==
    IF ~(i < layout.ly_search) THEN -1
    ELSE IF layout.entries[requested].le_type = type THEN requested
    ELSE cast_hash_loop(layout, type,
                        IF requested + 1 = layout.ob_size THEN 0 ELSE requested + 1,
                        i + 1)

\* _layout_cast_hash, as far as the slot it answers from (-1: not found)
layout_cast_hash_slot(layout, type) ==
    LET nentries == layout.ob_size
        requested == Shr(Py_LAYOUT(type).ly_id, layout.ly_shift) % nentries
    IN cast_hash_loop(layout, type, requested, 0)

\* _layout_cast_hash
layout_cast_hash(layout, obj, type) ==
    LET slot == layout_cast_hash_slot(layout, type)
    IN IF slot = -1 THEN NULL ELSE obj + layout.entries[slot].le_offset

\* objlayout->ly_cast(objlayout, obj, type)
ly_cast(layout, obj, type) ==
    IF layout.ly_cast = "ordered"
    THEN layout_cast_ordered(layout, obj, type)
    ELSE layout_cast_hash(layout, obj, type)

\* PyObject_GetTypeData(obj, type), obj an object of type objtype at address obj
PyObject_GetTypeData(objtype, obj, type) ==
    LET objlayout == Py_LAYOUT(objtype)
        typelayout == Py_LAYOUT(type)
    IN IF objlayout = NoLayout \/ typelayout = NoLayout
       THEN NULL
       ELSE ly_cast(objlayout, obj, type)

\* PyType_GetTypeDataSize(cls)
PyType_GetTypeDataSize(cls) ==
    IF Py_LAYOUT(cls) = NoLayout THEN 0 ELSE Py_LAYOUT(cls).ly_extensionsize

\* ------------------------------------------------------- construction

\* the loop of _layout_collect over the tuple, from item i
RECURSIVE collect_loop(_, _, _)
collect_loop(tuple, i, dict) ==
    IF i > Len(tuple) THEN dict
    ELSE collect_loop(tuple, i + 1,
            IF Py_LAYOUT(tuple[i]) # NoLayout
            THEN PyDict_SetItem(dict, tuple[i], Py_LAYOUT(tuple[i]))
            ELSE dict)

\* _layout_collect(tuple)
layout_collect(tuple) == collect_loop(tuple, 1, <<>>)

\* the while loop of _layout_check_ordered, from dict position pos;
\* buf is the set of orders already marked
RECURSIVE check_ordered_loop(_, _, _)
check_ordered_loop(layouts, pos, buf) ==
    IF pos > Len(layouts) THEN TRUE
    ELSE LET order == layouts[pos].value.ly_order
         IN IF order >= Len(layouts) \/ order \in buf
            THEN FALSE
            ELSE check_ordered_loop(layouts, pos + 1, buf \cup {order})

\* _layout_check_ordered(layouts)
layout_check_ordered(layouts) == check_ordered_loop(layouts, 1, {})

\* while (buf[position] > 0) of _layout_fast_hash.  The loop leaves only at a
\* free slot; after hash_size probes every slot has been seen taken, and buf
\* does not change inside the loop: it never leaves (found = FALSE).
RECURSIVE probe_buf(_, _, _, _)
probe_buf(buf, position, cost0, hash_size) ==
    IF cost0 > hash_size
    THEN [found |-> FALSE, position |-> position, cost0 |-> cost0]
    ELSE IF ~(buf[position] > 0)
    THEN [found |-> TRUE, position |-> position, cost0 |-> cost0]
    ELSE probe_buf(buf, IF position + 1 = hash_size THEN 0 ELSE position + 1,
                   cost0 + 1, hash_size)

\* while (PyDict_Next(layouts, &pos, ...)) of _layout_fast_hash for one shift
RECURSIVE fast_hash_pass(_, _, _, _, _, _)
fast_hash_pass(layouts, pos, buf, hash_size, shift, cost) ==
    IF pos > Len(layouts)
    THEN [stuck |-> FALSE, cost |-> cost, pos |-> pos, buf |-> buf, position |-> 0]
    ELSE LET home == Shr(layouts[pos].value.ly_id, shift) % hash_size
             p == probe_buf(buf, home, 1, hash_size)
         IN IF ~p.found
            THEN [stuck |-> TRUE, cost |-> cost, pos |-> pos, buf |-> buf,
                  position |-> p.position]
            ELSE fast_hash_pass(layouts, pos + 1,
                                [buf EXCEPT ![p.position] = p.cost0],
                                hash_size, shift, cost + p.cost0)

\* for (int shift = 0; shift<16; ++shift) of _layout_fast_hash.  pos is
\* declared outside the for loop and is not set back to 0 for the next shift.
RECURSIVE fast_hash_loop(_, _, _, _, _, _, _)
fast_hash_loop(layouts, hash_size, id, shift, pos, best, best_cost) ==
    IF ~(shift < NSHIFT)
    THEN [stuck |-> FALSE, best |-> best, shift |-> shift,
          buf |-> [i \in 0..(hash_size - 1) |-> 0], position |-> 0]
    ELSE LET buf0 == [i \in 0..(hash_size - 1) |->
                        IF i = Shr(id, shift) % hash_size THEN 1 ELSE 0]
             pass == fast_hash_pass(layouts, pos, buf0, hash_size, shift, 0)
         IN IF pass.stuck
            THEN [stuck |-> TRUE, best |-> best, shift |-> shift,
                  buf |-> pass.buf, position |-> pass.position]
            ELSE IF pass.cost = Len(layouts)
            THEN [stuck |-> FALSE, best |-> shift, shift |-> shift,
                  buf |-> pass.buf, position |-> 0]
            ELSE IF pass.cost < best_cost
            THEN fast_hash_loop(layouts, hash_size, id, shift + 1, pass.pos,
                                shift, pass.cost)
            ELSE fast_hash_loop(layouts, hash_size, id, shift + 1, pass.pos,
                                best, best_cost)

\* _layout_fast_hash(layouts, hash_size, id)
layout_fast_hash(layouts, hash_size, id) ==
    fast_hash_loop(layouts, hash_size, id, 0, 1, 0, hash_size)

\* _layout_base(type), type given by its feature flags
layout_base(flags) ==
    (IF "MANAGED_DICT" \in flags THEN SIZEOF_VOID_P ELSE 0)
    + (IF "HAVE_GC" \in flags THEN SIZEOF_VOID_P * 2 ELSE 0)
    + (IF "MANAGED_WEAKREF" \in flags THEN SIZEOF_VOID_P ELSE 0)

\* the while loop of _layout_fill_ordered, from dict position pos.  st holds
\* the entry table, the offset so far and the stores that fell outside the
\* table.
RECURSIVE fill_ordered_loop(_, _, _, _)
fill_ordered_loop(st, base, layouts, pos) ==
    IF pos > Len(layouts) THEN st
    ELSE LET sub_layout == layouts[pos].value
             position == sub_layout.ly_order
             offset == st.offset + sub_layout.ly_extensionsize
             entry == [le_type |-> layouts[pos].key, le_offset |-> (-base) - offset]
         IN fill_ordered_loop(
                IF position \in DOMAIN st.entries
                THEN [st EXCEPT !.entries[position] = entry, !.offset = offset]
                ELSE [st EXCEPT !.offset = offset,
                                !.oob = @ \cup {[position |-> position,
                                                 le_type |-> entry.le_type,
                                                 le_offset |-> entry.le_offset]}],
                base, layouts, pos + 1)

\* _layout_fill_ordered(layout, type, layouts), type given by its flags
layout_fill_ordered(layout, flags, layouts) ==
    LET st == fill_ordered_loop([entries |-> layout.entries, offset |-> 0, oob |-> {}],
                                layout_base(flags), layouts, 1)
    IN [stuck |-> FALSE,
        layout |-> [layout EXCEPT !.entries = st.entries, !.ly_allocsize = st.offset],
        oob |-> st.oob, position |-> 0]

\* while (entries[position].le_type != NULL) of _layout_fill_hash
RECURSIVE probe_entries(_, _, _, _)
probe_entries(entries, position, cost, hash_size) ==
    IF cost > hash_size
    THEN [found |-> FALSE, position |-> position, cost |-> cost]
    ELSE IF ~(entries[position].le_type # NULL)
    THEN [found |-> TRUE, position |-> position, cost |-> cost]
    ELSE probe_entries(entries, IF position + 1 = hash_size THEN 0 ELSE position + 1,
                       cost + 1, hash_size)

\* A fill loop that places every entry at its own size behind the prefix,
\* without adding up the sizes before it.
RECURSIVE fill_hash_loop_flat(_, _, _, _, _)
fill_hash_loop_flat(st, base, layouts, pos, shift) ==
    IF pos > Len(layouts) THEN st
    ELSE LET sub_layout == layouts[pos].value
             hash_size == st.layout.ob_size
             home == Shr(sub_layout.ly_id, shift) % hash_size
             p == probe_entries(st.layout.entries, home, 1, hash_size)
             offset == st.offset + sub_layout.ly_extensionsize
         IN IF ~p.found
            THEN [st EXCEPT !.stuck = TRUE, !.position = p.position]
            ELSE fill_hash_loop_flat(
                    [st EXCEPT
                        !.layout.ly_search = IF @ < p.cost THEN p.cost ELSE @,
                        !.layout.entries[p.position] =
                            [le_type |-> layouts[pos].key,
                             le_offset |-> (-base) - sub_layout.ly_extensionsize],
                        !.offset = offset],
                    base, layouts, pos + 1, shift)

\* the while loop of _layout_fill_hash, from dict position pos
RECURSIVE fill_hash_loop(_, _, _, _, _)
fill_hash_loop(st, base, layouts, pos, shift) ==
    IF pos > Len(layouts) THEN st
    ELSE LET sub_layout == layouts[pos].value
             hash_size == st.layout.ob_size
             home == Shr(sub_layout.ly_id, shift) % hash_size
             p == probe_entries(st.layout.entries, home, 1, hash_size)
             offset == st.offset + sub_layout.ly_extensionsize
         IN IF ~p.found
            THEN [st EXCEPT !.stuck = TRUE, !.position = p.position]
            ELSE fill_hash_loop(
                    [st EXCEPT
                        !.layout.ly_search = IF @ < p.cost THEN p.cost ELSE @,
                        !.layout.entries[p.position] =
                            [le_type |-> layouts[pos].key,
                             le_offset |-> (-base) - offset],
                        !.offset = offset],
                    base, layouts, pos + 1, shift)

\* _layout_fill_hash(layout, type, layouts), type given by its flags
layout_fill_hash(layout, flags, layouts) ==
    LET st == fill_hash_loop([stuck |-> FALSE, layout |-> layout, offset |-> 0,
                              position |-> 0],
                             layout_base(flags), layouts, 1, layout.ly_shift)
    IN [stuck |-> st.stuck,
        layout |-> [st.layout EXCEPT !.ly_allocsize = st.offset],
        oob |-> {}, position |-> st.position]

\* _layout_clear(layout): le_type = NULL in every slot.  le_offset of a slot is
\* not written here; no code reads it while le_type is NULL.
layout_clear(layout) ==
    [layout EXCEPT !.entries = [i \in 0..(layout.ob_size - 1) |->
                                   [le_type |-> NULL, le_offset |-> 0]]]

\* The locals of a call inside a probe loop.
NoFrame ==
    [fn |-> "", type |-> NULL, bases |-> <<>>, size |-> 0, buf |-> <<>>,
     position |-> 0, hash_size |-> 0]

\* _PyLayout_Create(type, bases, size); flags are the type's feature flags and
\* id is what rand() returns.  kind "return": the call returns result (a layout
\* or NoLayout); kind "probe": the call is in a probe loop that has no free slot.
PyLayout_Create(type, bases, size, flags, id) ==
    LET layouts == layout_collect(bases)
        order == IF Len(layouts) + size > 0 THEN 1 ELSE 0
        ordered == layout_check_ordered(layouts)
        entries == IF ordered THEN order ELSE order * 2
        fh == IF ordered
              THEN [stuck |-> FALSE, best |-> 0, buf |-> <<>>, position |-> 0]
              ELSE layout_fast_hash(layouts, entries, id)
        result == layout_clear(
                    [ly_allocsize |-> 0,
                     ly_extensionsize |-> size,
                     ly_cast |-> IF ordered THEN "ordered" ELSE "hash",
                     ly_id |-> id,
                     ly_order |-> order,
                     ly_shift |-> fh.best,
                     ly_search |-> 1,
                     ob_size |-> entries,
                     entries |-> <<>>])
        layouts2 == IF size > 0 THEN PyDict_SetItem(layouts, type, result) ELSE layouts
        filled == IF ordered
                  THEN layout_fill_ordered(result, flags, layouts2)
                  ELSE layout_fill_hash(result, flags, layouts2)
        call == [NoFrame EXCEPT !.type = type, !.bases = bases, !.size = size,
                                !.hash_size = entries]
    IN IF order = 0
       THEN [kind |-> "return", result |-> NoLayout, oob |-> {}, frame |-> NoFrame]
       ELSE IF fh.stuck
       THEN [kind |-> "probe", result |-> NoLayout, oob |-> {},
             frame |-> [call EXCEPT !.fn = "_layout_fast_hash",
                                    !.buf = [i \in 0..(entries - 1) |-> fh.buf[i] > 0],
                                    !.position = fh.position]]
       ELSE IF filled.stuck
       THEN [kind |-> "probe", result |-> NoLayout, oob |-> {},
             frame |-> [call EXCEPT !.fn = "_layout_fill_hash",
                                    !.buf = [i \in 0..(entries - 1) |->
                                                filled.layout.entries[i].le_type # NULL],
                                    !.position = filled.position]]
       ELSE [kind |-> "return", result |-> filled.layout,
             oob |-> {[type |-> type, position |-> w.position,
                       le_type |-> w.le_type, le_offset |-> w.le_offset] : w \in filled.oob},
             frame |-> NoFrame]

\* ---------------------------------------------------------- the machine

\* The items of a tuple.
Range(tuple) == {tuple[i] : i \in 1..Len(tuple)}

\* The direct and transitive bases of type t.
RECURSIVE Ancestors(_)
Ancestors(t) == UNION {{b} \cup Ancestors(b) : b \in Range(tp_bases[t])}

\* Tuples of bases a new type may name: distinct types already defined, none
\* listed before one of its own subclasses (such a tuple has no consistent
\* method resolution order and the type is never set up).
BaseTuples ==
    {<<>>} \cup {<<a>> : a \in Defined}
           \cup {p \in Defined \X Defined :
                    p[1] # p[2] /\ p[1] \notin Ancestors(p[2])}

Init ==
    /\ ntypes = 0
    /\ tp_bases = <<>>
    /\ tp_flags = <<>>
    /\ tp_cache = <<>>
    /\ oob = {}
    /\ pc = "idle"
    /\ frame = NoFrame

\* A type is defined: the type object is set up (bases, flags) and
\* _PyLayout_Create is called for it.
Create(bases, size, flags, id) ==
    /\ pc = "idle"
    /\ ntypes < MaxTypes
    /\ LET type == ntypes + 1
           r == PyLayout_Create(type, bases, size, flags, id)
       IN IF r.kind = "return"
          THEN /\ ntypes' = type
               /\ tp_bases' = Append(tp_bases, bases)
               /\ tp_flags' = Append(tp_flags, flags)
               /\ tp_cache' = Append(tp_cache, r.result)
               /\ oob' = oob \cup r.oob
               /\ UNCHANGED <<pc, frame>>
          ELSE /\ pc' = "probe"
               /\ frame' = r.frame
               /\ UNCHANGED <<ntypes, tp_bases, tp_flags, tp_cache, oob>>

\* One iteration of the probe loop the call is in: the slot is taken, so
\* position++ and wrap at hash_size.  The loop also counts its iterations
\* (cost0, cost); the count is read only after the loop and is not kept.
ProbeStep ==
    /\ pc = "probe"
    /\ frame.buf[frame.position]
    /\ frame' = [frame EXCEPT !.position =
                    IF @ + 1 = frame.hash_size THEN 0 ELSE @ + 1]
    /\ UNCHANGED <<ntypes, tp_bases, tp_flags, tp_cache, oob, pc>>

Next ==
    \/ \E bases \in BaseTuples, decl \in TypeDecls, id \in Ids :
          Create(bases, decl.size, decl.flags, id)
    \/ ProbeStep

Spec == Init /\ [][Next]_vars

\* A thread that is inside a loop keeps executing it.
FairSpec == Spec /\ WF_vars(ProbeStep)

\* ------------------------------------------------- vocabulary of the claims

HasLayout(t) == Py_LAYOUT(t) # NoLayout

\* The ancestors of t that have a layout.
LayoutAncestors(t) == {a \in Ancestors(t) : HasLayout(a)}

\* reserved_prefix(t)
ReservedPrefix(t) == layout_base(tp_flags[t])

\* The sum of the extension sizes of the types in S.
RECURSIVE SumExt(_)
SumExt(S) ==
    IF S = {} THEN 0
    ELSE LET x == CHOOSE y \in S : TRUE
         IN PyType_GetTypeDataSize(x) + SumExt(S \ {x})

\* The dict _PyLayout_Create filled the table of t from: the layouts of the
\* bases, then t's own when it requested memory.
FillDict(t) ==
    LET d == layout_collect(tp_bases[t])
    IN IF PyType_GetTypeDataSize(t) > 0 THEN PyDict_SetItem(d, t, Py_LAYOUT(t)) ELSE d

\* The sum of the extension sizes of the first k items of dict d.
RECURSIVE SumFirst(_, _)
SumFirst(d, k) ==
    IF k = 0 THEN 0 ELSE SumFirst(d, k - 1) + d[k].value.ly_extensionsize

\* The slots of t's table that hold an entry.
UsedSlots(t) ==
    {i \in DOMAIN Py_LAYOUT(t).entries : Py_LAYOUT(t).entries[i].le_type # NULL}

\* Every (type, offset) the fill of t's layout stored: in the table, or past
\* its end.
Placed(t) ==
    {Py_LAYOUT(t).entries[i] : i \in UsedSlots(t)}
    \cup {[le_type |-> w.le_type, le_offset |-> w.le_offset] : w \in {v \in oob : v.type = t}}

\* The slot a lookup of type in layout answers from, -1 when it answers NULL.
CastSlot(layout, type) ==
    IF layout.ly_cast = "ordered"
    THEN layout_cast_ordered_slot(layout, type)
    ELSE layout_cast_hash_slot(layout, type)

\* Every type of t's ancestry has at most one base with a layout.
SingleChains(t) ==
    \A u \in {t} \cup Ancestors(t) :
        Cardinality({b \in Range(tp_bases[u]) : HasLayout(b)}) <= 1

\* Two of the bases have layouts with the same order_index.
Colliding(bases) ==
    \E a, b \in Range(bases) :
        /\ a # b
        /\ HasLayout(a) /\ HasLayout(b)
        /\ Py_LAYOUT(a).ly_order = Py_LAYOUT(b).ly_order

\* A call is in a probe loop over a table with no free slot: the loop leaves
\* only at a free slot and nothing frees one.
Stuck == pc = "probe" /\ \A i \in DOMAIN frame.buf : frame.buf[i]

\* The probe cost of one full simulated pass at shift s: the new key first,
\* then every key of dict d, into an empty table of hash_size slots.
SimCost(d, hash_size, id, s) ==
    fast_hash_pass(d, 1,
                   [i \in 0..(hash_size - 1) |-> IF i = Shr(id, s) % hash_size THEN 1 ELSE 0],
                   hash_size, s, 0).cost

\* ------------------------------------------------------------------ claims

\* C1: in a hierarchy where every type has at most one Layout-bearing base,
\* every layout is Ordered, and get_extension(obj, T) for type(obj) and for
\* each Layout-bearing ancestor T that requested memory is exactly
\* obj - (reserved_prefix(type(obj)) + the extension sizes packed up to and
\* including T).
C1_SingleChainOrderedExact ==
    \A t \in Defined :
        (HasLayout(t) /\ SingleChains(t)) =>
            /\ Py_LAYOUT(t).ly_cast = "ordered"
            /\ \A T \in {u \in {t} \cup LayoutAncestors(t) : PyType_GetTypeDataSize(u) > 0} :
                 \A obj \in Addrs :
                    PyObject_GetTypeData(t, obj, T) =
                        obj - (ReservedPrefix(t) + PyType_GetTypeDataSize(T)
                               + SumExt(LayoutAncestors(T)))

\* C2: get_extension(obj, T) returns a pointer, never "not found", for every
\* T that requested size > 0 and is type(obj) or a direct or transitive
\* ancestor of type(obj).
C2_AncestorAlwaysFound ==
    \A t \in Defined :
        \A T \in {u \in {t} \cup Ancestors(t) : PyType_GetTypeDataSize(u) > 0} :
            \A obj \in Addrs : PyObject_GetTypeData(t, obj, T) # NULL

\* C3: get_extension(obj, T) is NULL whenever T is not type(obj) or one of its
\* ancestors, or T has no layout, or type(obj) has no layout; when it returns
\* a pointer, the slot it answers from holds exactly T and the pointer is
\* obj + that slot's offset.
C3_NotFoundOrExactSlot ==
    \A t \in Defined : \A T \in Defined : \A obj \in Addrs :
        LET r == PyObject_GetTypeData(t, obj, T)
        IN /\ (T \notin ({t} \cup Ancestors(t)) \/ ~HasLayout(T) \/ ~HasLayout(t))
                => r = NULL
           /\ r # NULL =>
                LET slot == CastSlot(Py_LAYOUT(t), T)
                IN /\ slot \in DOMAIN Py_LAYOUT(t).entries
                   /\ Py_LAYOUT(t).entries[slot].le_type = T
                   /\ r = obj + Py_LAYOUT(t).entries[slot].le_offset

\* C3 witness: an object whose lookup of an ancestor returns a pointer, while
\* the lookup of an unrelated Layout-bearing type U returns NULL although U's
\* home slot in the object's table is taken by another type.
C3_Witness ==
    \E t \in Defined : \E T \in Ancestors(t) : \E U \in Defined : \E obj \in Addrs :
        /\ PyObject_GetTypeData(t, obj, T) # NULL
        /\ HasLayout(U) /\ U \notin ({t} \cup Ancestors(t))
        /\ Py_LAYOUT(t).ly_cast = "hash"
        /\ Py_LAYOUT(t).entries[Shr(Py_LAYOUT(U).ly_id, Py_LAYOUT(t).ly_shift)
                                 % Py_LAYOUT(t).ob_size].le_type # NULL
        /\ PyObject_GetTypeData(t, obj, U) = NULL

\* C4: a type whose bases bring two ancestor layouts with colliding
\* order_index gets a Hashed layout in which every entry placed is found by
\* the Hashed lookup within max_probe probes of its home slot; its
\* construction is never left probing a table that has no free slot.
C4_CollidingHashedReachable ==
    /\ Stuck => ~Colliding(frame.bases)
    /\ \A t \in Defined :
          Colliding(tp_bases[t]) =>
              /\ HasLayout(t)
              /\ Py_LAYOUT(t).ly_cast = "hash"
              /\ \A i \in UsedSlots(t) :
                    layout_cast_hash_slot(Py_LAYOUT(t), Py_LAYOUT(t).entries[i].le_type) = i

\* C5: the table of every layout holds exactly one entry for each distinct
\* Layout-bearing ancestor of its type, however many inheritance paths reach
\* it, and alloc_size is the type's own extension size plus the extension
\* size of every distinct ancestor, each counted once.
C5_OneEntryPerAncestor ==
    \A t \in Defined :
        HasLayout(t) =>
            /\ \A A \in LayoutAncestors(t) :
                  Cardinality({i \in UsedSlots(t) : Py_LAYOUT(t).entries[i].le_type = A}) = 1
            /\ Py_LAYOUT(t).ly_allocsize =
                  PyType_GetTypeDataSize(t) + SumExt(LayoutAncestors(t))

\* C6: with n = the number of distinct ancestor layouts collected, plus one if
\* size > 0, table_size = n in Ordered mode and 2n in Hashed mode.
C6_TableSize ==
    \A t \in Defined :
        HasLayout(t) =>
            LET n == Len(layout_collect(tp_bases[t]))
                     + (IF PyType_GetTypeDataSize(t) > 0 THEN 1 ELSE 0)
            IN Py_LAYOUT(t).ob_size =
                  IF Py_LAYOUT(t).ly_cast = "ordered" THEN n ELSE 2 * n

\* C7: build_layout terminates: a call that is inside a probe loop leaves it
\* and returns.
C7_CreateTerminates == [](pc = "probe" => <>(pc = "idle"))

\* C8: in every layout every entry's offset is <= 0, the regions
\* [offset, offset + extension_size) of its entries are pairwise disjoint and
\* lie at or below -reserved_prefix(type), and the magnitudes stack in fill
\* order: the k-th entry filled lies at reserved_prefix plus the extension
\* sizes of the first k entries filled.
C8_OffsetsStackDisjoint ==
    \A t \in Defined :
        HasLayout(t) =>
            LET E == Placed(t)
                fill == FillDict(t)
                base == ReservedPrefix(t)
            IN /\ \A e \in E :
                     /\ e.le_offset <= 0
                     /\ e.le_offset + PyType_GetTypeDataSize(e.le_type) <= -base
               /\ \A e \in E : \A f \in E :
                     e # f =>
                        \/ e.le_offset + PyType_GetTypeDataSize(e.le_type) <= f.le_offset
                        \/ f.le_offset + PyType_GetTypeDataSize(f.le_type) <= e.le_offset
               /\ \A k \in 1..Len(fill) :
                     \E e \in E :
                        /\ e.le_type = fill[k].key
                        /\ -e.le_offset = base + SumFirst(fill, k)
               /\ Cardinality(E) = Len(fill)

\* C8 witness: a layout with a non-zero reserved prefix whose table holds two
\* entries of different non-zero extension sizes.
C8_Witness ==
    \E t \in Defined :
        /\ HasLayout(t)
        /\ ReservedPrefix(t) > 0
        /\ \E i \in UsedSlots(t) : \E j \in UsedSlots(t) :
              LET a == Py_LAYOUT(t).entries[i].le_type
                  b == Py_LAYOUT(t).entries[j].le_type
              IN /\ PyType_GetTypeDataSize(a) > 0
                 /\ PyType_GetTypeDataSize(b) > 0
                 /\ PyType_GetTypeDataSize(a) # PyType_GetTypeDataSize(b)

\* C9: in every Ordered layout each entry filled is stored at the index equal
\* to its type's order_index, which is below table_size (no store outside the
\* table), no two entries share an index, and the layout's own order_index is
\* one of 0..n-1 and differs from that of every ancestor in the table.
C9_OrderedDense ==
    \A t \in Defined :
        (HasLayout(t) /\ Py_LAYOUT(t).ly_cast = "ordered") =>
            LET L == Py_LAYOUT(t)
                fill == FillDict(t)
                n == Len(fill)
            IN /\ {w \in oob : w.type = t} = {}
               /\ \A k \in 1..n :
                     /\ fill[k].value.ly_order < L.ob_size
                     /\ L.entries[fill[k].value.ly_order].le_type = fill[k].key
               /\ \A j \in 1..n : \A k \in 1..n :
                     j # k => fill[j].value.ly_order # fill[k].value.ly_order
               /\ L.ly_order \in 0..(n - 1)
               /\ \A a \in Range(tp_bases[t]) :
                     HasLayout(a) => Py_LAYOUT(a).ly_order # L.ly_order

\* C10: the shift of every Hashed layout is the first of the candidate shifts
\* whose full simulation (the new key, then every ancestor key, into an empty
\* table) has no collision, when there is one, and otherwise a shift whose
\* simulated total probe cost is least among all candidate shifts.
C10_BestShift ==
    \A t \in Defined :
        (HasLayout(t) /\ Py_LAYOUT(t).ly_cast = "hash") =>
            LET L == Py_LAYOUT(t)
                d == layout_collect(tp_bases[t])
                shifts == 0..(NSHIFT - 1)
                perfect == {s \in shifts : SimCost(d, L.ob_size, L.ly_id, s) = Len(d)}
            IN IF perfect # {}
               THEN L.ly_shift \in perfect /\ \A s \in perfect : L.ly_shift <= s
               ELSE \A s \in shifts :
                       SimCost(d, L.ob_size, L.ly_id, L.ly_shift)
                          <= SimCost(d, L.ob_size, L.ly_id, s)

====
